---------------------------- MODULE Spec2Model ----------------------------
(***************************************************************************)
(* Model of src/utils/string_utils.py:                                     *)
(*                                                                         *)
(*     def capitalize_first_letter(string):                                *)
(*         return string[0].upper() + string[1:]                           *)
(*                                                                         *)
(* A Python value is a record [type, chars]; a str is its sequence of      *)
(* Unicode code points.  The expression of line 7 is evaluated left to     *)
(* right in four steps (string[0], .upper(), string[1:], +), each of which *)
(* is one action of the calling thread, so that calls made from several    *)
(* threads interleave between the steps as they do between bytecodes.      *)
(***************************************************************************)
EXTENDS Integers, Sequences, FiniteSets, TLC

\* Longest argument of the single call of Spec.
MaxLen == 3
\* Longest argument of the concurrent calls of SpecConc.
MaxLenConc == 1
\* Number of threads.
NumThreads == 2

Threads == 1..NumThreads

\* Code points the arguments are built from: '1', 'A', 'a', U+00DF (sharp s).
Alphabet == {49, 65, 97, 223}

\* Python values.
None == [type |-> "NoneType", chars |-> <<>>]
Str(s) == [type |-> "str", chars |-> s]
\* An unset local, or the absence of a returned value.
Absent == [type |-> "absent", chars |-> <<>>]

StrsUpTo(n) == UNION {[1..k -> Alphabet] : k \in 0..n}
Inputs(n) == {None} \cup {Str(s) : s \in StrsUpTo(n)}

(***************************************************************************)
(* Unicode case data, as str.upper, str.isupper use it, for the code       *)
(* points of Alphabet and of their upper-case forms:                       *)
(*   'a' (97)  -> 'A' (65)          'A' (65) -> 'A'     'S' (83) -> 'S'    *)
(*   U+00DF (223) -> 'SS' (83 83)   '1' (49) -> '1' (no case)              *)
(***************************************************************************)
ToUpper(c) == CASE c = 97 -> <<65>>
                [] c = 115 -> <<83>>
                [] c = 223 -> <<83, 83>>
                [] OTHER -> <<c>>

\* The other case of a cased code point: what str.swapcase maps it to.
ToSwapped(c) == CASE c = 97 -> <<65>>
                  [] c = 65 -> <<97>>
                  [] c = 115 -> <<83>>
                  [] c = 83 -> <<115>>
                  [] c = 223 -> <<83, 83>>
                  [] OTHER -> <<c>>

RECURSIVE swapcase_chars(_)
swapcase_chars(s) ==
    IF s = <<>> THEN <<>> ELSE ToSwapped(Head(s)) \o swapcase_chars(Tail(s))

\* str.swapcase in place of str.upper.
str_swapcase(v) == Str(swapcase_chars(v.chars))

RECURSIVE upper_chars(_)
upper_chars(s) ==
    IF s = <<>> THEN <<>> ELSE ToUpper(Head(s)) \o upper_chars(Tail(s))

\* v.upper() for a str v: every character replaced by its upper-case form.
str_upper(v) == Str(upper_chars(v.chars))

\* What the evaluation of v[0] does: the exception it raises, or "ok".
getitem_raises(v) ==
    IF v.type = "NoneType" THEN "TypeError"
    ELSE IF Len(v.chars) = 0 THEN "IndexError"
    ELSE "ok"

\* v[0] for a non-empty str v: the one-character str.
getitem0(v) == Str(<<v.chars[1]>>)

\* v[0:], the slice taken from the wrong index.
getslice0(v) == Str(v.chars)

\* v[1:] for a str v: everything after the first character; never raises.
getslice1(v) == Str(SubSeq(v.chars, 2, Len(v.chars)))

\* a + b for two str.
str_add(a, b) == Str(a.chars \o b.chars)

\* The function as one expression: its outcome and the value returned.
capitalize_first_letter(string) ==
    IF getitem_raises(string) # "ok"
    THEN [outcome |-> getitem_raises(string), value |-> Absent]
    ELSE [outcome |-> "return",
          value |-> str_add(str_upper(getitem0(string)), getslice1(string))]

VARIABLES
    string,     \* string[t]: the argument of thread t's call
    pc,         \* pc[t]: the step of line 7 thread t executes next
    head,       \* head[t]: the left operand, string[0] and then its .upper()
    tail,       \* tail[t]: the right operand, string[1:]
    outcome,    \* outcome[t]: "pending", "return", or the exception raised
    result      \* result[t]: the value returned, Absent when none

vars == <<string, pc, head, tail, outcome, result>>

\* One thread calls the function, with any argument of up to MaxLen characters.
Init ==
    /\ \E s \in Inputs(MaxLen) :
          string = [t \in Threads |-> IF t = 1 THEN s ELSE Absent]
    /\ pc = [t \in Threads |-> IF t = 1 THEN "subscript" ELSE "idle"]
    /\ head = [t \in Threads |-> Absent]
    /\ tail = [t \in Threads |-> Absent]
    /\ outcome = [t \in Threads |-> "pending"]
    /\ result = [t \in Threads |-> Absent]

\* Every thread calls the function, each with its own argument.
InitConc ==
    /\ string \in [Threads -> Inputs(MaxLenConc)]
    /\ pc = [t \in Threads |-> "subscript"]
    /\ head = [t \in Threads |-> Absent]
    /\ tail = [t \in Threads |-> Absent]
    /\ outcome = [t \in Threads |-> "pending"]
    /\ result = [t \in Threads |-> Absent]

\* string[0] guarded as the docstring describes: None gives the empty str.
SubscriptNoneGuarded(t) ==
    /\ pc[t] = "subscript"
    /\ IF string[t].type = "NoneType"
       THEN /\ pc' = [pc EXCEPT ![t] = "done"]
            /\ outcome' = [outcome EXCEPT ![t] = "return"]
            /\ result' = [result EXCEPT ![t] = Str(<<>>)]
            /\ head' = head
       ELSE IF getitem_raises(string[t]) # "ok"
       THEN /\ pc' = [pc EXCEPT ![t] = "done"]
            /\ outcome' = [outcome EXCEPT ![t] = getitem_raises(string[t])]
            /\ UNCHANGED <<head, result>>
       ELSE /\ pc' = [pc EXCEPT ![t] = "upper"]
            /\ head' = [head EXCEPT ![t] = getitem0(string[t])]
            /\ UNCHANGED <<outcome, result>>
    /\ UNCHANGED <<string, tail>>

\* string[:1] in place of string[0]: the empty str gives the empty str.
SubscriptAsSlice(t) ==
    /\ pc[t] = "subscript"
    /\ IF string[t].type = "NoneType"
       THEN /\ pc' = [pc EXCEPT ![t] = "done"]
            /\ outcome' = [outcome EXCEPT ![t] = "TypeError"]
            /\ head' = head
       ELSE /\ pc' = [pc EXCEPT ![t] = "upper"]
            /\ head' = [head EXCEPT ![t] =
                          IF Len(string[t].chars) = 0 THEN Str(<<>>)
                          ELSE getitem0(string[t])]
            /\ outcome' = outcome
    /\ UNCHANGED <<string, tail, result>>

\* string[0]: raises on None and on the empty str, the call ends there.
Subscript(t) ==
    /\ pc[t] = "subscript"
    /\ IF getitem_raises(string[t]) # "ok"
       THEN /\ pc' = [pc EXCEPT ![t] = "done"]
            /\ outcome' = [outcome EXCEPT ![t] = getitem_raises(string[t])]
            /\ head' = head
       ELSE /\ pc' = [pc EXCEPT ![t] = "upper"]
            /\ head' = [head EXCEPT ![t] = getitem0(string[t])]
            /\ outcome' = outcome
    /\ UNCHANGED <<string, tail, result>>

\* The .upper() call left out.
UpperSkipped(t) ==
    /\ pc[t] = "upper"
    /\ pc' = [pc EXCEPT ![t] = "slice"]
    /\ UNCHANGED <<string, head, tail, outcome, result>>

\* The upper-cased character kept in one slot shared by all threads.
UpperShared(t) ==
    /\ pc[t] = "upper"
    /\ pc' = [pc EXCEPT ![t] = "slice"]
    /\ head' = [u \in Threads |-> str_upper(head[t])]
    /\ UNCHANGED <<string, tail, outcome, result>>

\* .upper() on the one-character str.
Upper(t) ==
    /\ pc[t] = "upper"
    /\ pc' = [pc EXCEPT ![t] = "slice"]
    /\ head' = [head EXCEPT ![t] = str_upper(head[t])]
    /\ UNCHANGED <<string, tail, outcome, result>>

\* string[1:].
Slice(t) ==
    /\ pc[t] = "slice"
    /\ pc' = [pc EXCEPT ![t] = "add"]
    /\ tail' = [tail EXCEPT ![t] = getslice1(string[t])]
    /\ UNCHANGED <<string, head, outcome, result>>

\* The remainder dropped: return string[0].upper().
AddHeadOnly(t) ==
    /\ pc[t] = "add"
    /\ pc' = [pc EXCEPT ![t] = "done"]
    /\ outcome' = [outcome EXCEPT ![t] = "return"]
    /\ result' = [result EXCEPT ![t] = head[t]]
    /\ UNCHANGED <<string, head, tail>>

\* The result also written over the argument.
AddInPlace(t) ==
    /\ pc[t] = "add"
    /\ pc' = [pc EXCEPT ![t] = "done"]
    /\ outcome' = [outcome EXCEPT ![t] = "return"]
    /\ result' = [result EXCEPT ![t] = str_add(head[t], tail[t])]
    /\ string' = [string EXCEPT ![t] = str_add(head[t], tail[t])]
    /\ UNCHANGED <<head, tail>>

\* The concatenation, and the return of its value.
Add(t) ==
    /\ pc[t] = "add"
    /\ pc' = [pc EXCEPT ![t] = "done"]
    /\ outcome' = [outcome EXCEPT ![t] = "return"]
    /\ result' = [result EXCEPT ![t] = str_add(head[t], tail[t])]
    /\ UNCHANGED <<string, head, tail>>

Next ==
    \E t \in Threads :
        \/ Subscript(t)
        \/ Upper(t)
        \/ Slice(t)
        \/ Add(t)

\* A single call.
Spec == Init /\ [][Next]_vars

\* Concurrent calls, one per thread.
SpecConc == InitConc /\ [][Next]_vars

----------------------------------------------------------------------------
\* Shorthands for the statements below.

Done(t) == pc[t] = "done"
Returned(t) == pc[t] = "done" /\ outcome[t] = "return"
NonEmptyStr(v) == v.type = "str" /\ Len(v.chars) >= 1
\* The upper-case form of the first character of a non-empty str.
UpperOfFirst(v) == ToUpper(v.chars[1])
DropFirst(s, n) == SubSeq(s, n + 1, Len(s))
FirstN(s, n) == SubSeq(s, 1, n)

TypeOK ==
    /\ pc \in [Threads -> {"idle", "subscript", "upper", "slice", "add", "done"}]
    /\ outcome \in [Threads -> {"pending", "return", "TypeError", "IndexError"}]
    /\ \A t \in Threads :
          /\ string[t].type \in {"NoneType", "str", "absent"}
          /\ result[t].type \in {"str", "absent"}
          /\ Returned(t) <=> result[t].type = "str"

\* Code points that are upper-case letters (str.isupper), and code points
\* that have no case.
UpperCaseLetters == {65, 83}
Uncased == {49}

----------------------------------------------------------------------------
\* C1, as stated: for every non-empty str s the call returns, and the
\* characters of the result after its first are the characters of s after
\* its first (result[1:] == s[1:]).
C1_RemainderAtIndexOne ==
    \A t \in Threads :
        Done(t) /\ NonEmptyStr(string[t]) =>
            /\ Returned(t)
            /\ DropFirst(result[t].chars, 1) = DropFirst(string[t].chars, 1)

\* C1, amended: for every non-empty str s the call returns, and the result
\* with the upper-case form of s[0] removed from its front is s[1:]; so
\* result[1:] == s[1:] whenever that upper-case form is one character long.
C1_RemainderUnchanged ==
    \A t \in Threads :
        Done(t) /\ NonEmptyStr(string[t]) =>
            /\ Returned(t)
            /\ DropFirst(result[t].chars, Len(UpperOfFirst(string[t])))
                  = DropFirst(string[t].chars, 1)
            /\ Len(UpperOfFirst(string[t])) = 1 =>
                  DropFirst(result[t].chars, 1) = DropFirst(string[t].chars, 1)

\* C1 witness: a call has returned for an argument with a remainder whose
\* first character has a two-character upper-case form.
C1_Witness ==
    \E t \in Threads :
        /\ Returned(t)
        /\ Len(string[t].chars) >= 2
        /\ Len(UpperOfFirst(string[t])) = 2
        /\ DropFirst(result[t].chars, 2) = DropFirst(string[t].chars, 1)

\* C2, as stated: for every non-empty str s the first character of the
\* result is the upper-case form of s[0] (result[0] == upper(s[0])), also
\* when that form is more than one character long.
C2_FirstCharIsUpper ==
    \A t \in Threads :
        Done(t) /\ NonEmptyStr(string[t]) =>
            /\ Returned(t)
            /\ FirstN(result[t].chars, 1) = UpperOfFirst(string[t])

\* C2, amended: for every non-empty str s the result starts with the
\* upper-case form of s[0], all of its characters; result[0] is that form
\* when it is one character long.
C2_StartsWithUpper ==
    \A t \in Threads :
        Done(t) /\ NonEmptyStr(string[t]) =>
            /\ Returned(t)
            /\ FirstN(result[t].chars, Len(UpperOfFirst(string[t])))
                  = UpperOfFirst(string[t])
            /\ Len(UpperOfFirst(string[t])) = 1 =>
                  <<result[t].chars[1]>> = UpperOfFirst(string[t])

\* C2 witness: a call has returned 'SS...' for an argument starting with
\* U+00DF.
C2_Witness ==
    \E t \in Threads :
        /\ Returned(t)
        /\ string[t].chars[1] = 223
        /\ FirstN(result[t].chars, 2) = <<83, 83>>

\* C3, as stated: for every non-empty str s the result is as long as s.
C3_SameLength ==
    \A t \in Threads :
        Done(t) /\ NonEmptyStr(string[t]) =>
            /\ Returned(t)
            /\ Len(result[t].chars) = Len(string[t].chars)

\* C3, amended: for every non-empty str s the length of the result is
\* len(s) - 1 + len(upper(s[0])); it is len(s) whenever the upper-case form
\* of s[0] is one character long.
C3_LengthOfResult ==
    \A t \in Threads :
        Done(t) /\ NonEmptyStr(string[t]) =>
            /\ Returned(t)
            /\ Len(result[t].chars)
                  = Len(string[t].chars) - 1 + Len(UpperOfFirst(string[t]))
            /\ Len(UpperOfFirst(string[t])) = 1 =>
                  Len(result[t].chars) = Len(string[t].chars)

\* C3 witness: a call has returned a result one character longer than its
\* argument of MaxLen characters.
C3_Witness ==
    \E t \in Threads :
        /\ Returned(t)
        /\ Len(string[t].chars) = MaxLen
        /\ Len(result[t].chars) = MaxLen + 1

\* C4: the function is idempotent: applied to the result of a call on a
\* non-empty str, it returns that result again.
C4_Idempotent ==
    \A t \in Threads :
        Done(t) /\ NonEmptyStr(string[t]) =>
            /\ Returned(t)
            /\ capitalize_first_letter(result[t])
                  = [outcome |-> "return", value |-> result[t]]

\* C4 witness: a call has returned a result that differs from its argument.
C4_Witness ==
    \E t \in Threads :
        /\ Returned(t)
        /\ string[t].chars[1] \in {97, 223}
        /\ result[t] # string[t]
        /\ capitalize_first_letter(result[t]).value = result[t]

\* C5, as stated: when the argument is None the call returns the empty str
\* and does not fail.
C5_NoneReturnsEmpty ==
    \A t \in Threads :
        Done(t) /\ string[t] = None =>
            /\ outcome[t] = "return"
            /\ result[t] = Str(<<>>)

C7_UnchangedWhenUpper ==
    \A t \in Threads :
        /\ Done(t)
        /\ NonEmptyStr(string[t])
        /\ string[t].chars[1] \in UpperCaseLetters \cup Uncased
        => Returned(t) /\ result[t] = string[t]

\* C7 witness: calls have returned for an argument of two or more characters
\* starting with an upper-case letter or with a digit.
C7_Witness ==
    \E t \in Threads :
        /\ Returned(t)
        /\ Len(string[t].chars) >= 2
        /\ string[t].chars[1] \in UpperCaseLetters \cup Uncased
        /\ string[t].chars[2] \in {97, 223}

\* C8: under any interleaving of the threads' calls, each finished call's
\* outcome and result are those of the function on its own argument, and two
\* finished calls with equal arguments have equal outcomes and results.
C8_Deterministic ==
    /\ \A t \in Threads :
          Done(t) =>
              [outcome |-> outcome[t], value |-> result[t]]
                  = capitalize_first_letter(string[t])
    /\ \A t, u \in Threads :
          Done(t) /\ Done(u) /\ string[t] = string[u] =>
              outcome[t] = outcome[u] /\ result[t] = result[u]

\* C8 witness: one thread has returned while another, called with a
\* different argument, is between the steps of its own call.
C8_Witness ==
    \E t, u \in Threads :
        /\ t # u
        /\ Returned(t)
        /\ pc[u] \in {"slice", "add"}
        /\ string[t] # string[u]
        /\ result[t] # string[t]
        /\ head[u] # head[t]

\* C9: no step of a call, returning or failing, changes the argument the
\* caller passed; the result is held apart from it.
C9_ArgumentUnchanged == [][string' = string]_vars

\* C9 witness: a call has returned a result that differs from its argument,
\* which still starts with the lower-case letter.
C9_Witness ==
    \E t \in Threads :
        /\ Returned(t)
        /\ string[t].chars[1] = 97
        /\ result[t].chars[1] = 65

\* C10: for the empty str the call returns no value: string[0] raises
\* IndexError before the slice and the concatenation are evaluated.
C10_EmptyRaises ==
    \A t \in Threads :
        Done(t) /\ string[t] = Str(<<>>) =>
            /\ outcome[t] = "IndexError"
            /\ result[t] = Absent
            /\ head[t] = Absent /\ tail[t] = Absent

\* C10 witness: a call with the empty str has ended.
C10_Witness ==
    \E t \in Threads :
        Done(t) /\ string[t] = Str(<<>>) /\ outcome[t] # "return"

=============================================================================
